---- MODULE Spec2Model ----
(***************************************************************************)
(* Actuation choreography and label routing of the waste sorter.  Two      *)
(* scripts drive the same pan and tilt servos:                             *)
(*   "classifier" : src/classifier_app.py      (on-device TFLite model)    *)
(*   "gemini"     : src/gemini_trigger_app.py  (cloud classification)      *)
(* The model follows each script from module initialisation through the    *)
(* main loop to the except/finally shutdown path.  Servo values are the    *)
(* gpiozero values in [-1, 1].  They are Python floats: the model keeps     *)
(* them as binary floating-point numbers with a MantBits-bit significand   *)
(* on a grid of 2^-FracBits, every operation rounded to nearest-even.      *)
(***************************************************************************)
EXTENDS Integers, Sequences, FiniteSets, TLC

\* ---------------------------------------------------------------- bounds
\* floating point: significand bits, and fraction bits of the finest grid
\* (a Python float has 53 significand bits)
MantBits == 9
FracBits == 12
\* the float 1.0: values are integers counting units of 2^-FracBits
Scale == 2 ^ FracBits
\* number of steps of one sweep (the default argument of sine_sweep is 200)
steps == 4

\* ------------------------------------------------------ program constants
CENTER_POS == 90
CLS_WET_POS == 45
CLS_DRY_POS == 135
CLS_DROP_POS == 0
GEM_DRY_POS == 45
GEM_MIXED_HAZ_POS == 135
GEM_WET_TILT_POS == 0
GEM_FULL_TILT == 180
\* pauses, in tenths of a second
PAN_SETTLE_PAUSE == 5
DROP_PAUSE == 10
ERROR_PAUSE == 5

Variants == {"classifier", "gemini"}
Servos == {"pan", "tilt"}

\* what labels.txt may hold (classifier) / what the model may answer (gemini)
RawLabels == {"wet", "dry", "mixed", "Wet", "unknown_garbage", ""}
\* the strings classify_with_gemini returns when it cannot classify
GeminiErrors == {"error: no image", "error: API key not set",
                 "error: api", "error: general"}
AllLabels == RawLabels \cup GeminiErrors \cup {"unknown"}
NoLabel == "<none>"
\* informational confidence of the TFLite prediction, in percent
Confidences == {40, 99}

\* a servo that has not been given a value by the script yet
Unset == 0 - (2 * Scale)

VARIABLES
    variant,      \* which script runs
    pc,           \* position of the script
    label,        \* the classification of the current cycle
    confidence,   \* its confidence (classifier only, printed only)
    prog,         \* the motion program trigger_actuator is running
    seg,          \* index of the running segment of prog
    step,         \* loop index i of a sweep / elapsed tenths of a pause
    val,          \* last value assigned to servo.value, per servo
    attached,     \* servo control held (created and not yet detached)
    exc,          \* exception that ended the loop or the process
    reported,     \* the except clause printed the exception
    first_cmd,    \* history: first value each servo was given
    cmds,         \* history: commands each servo got in this cycle
    trace,        \* history: segments completed in this cycle
    late_cmd,     \* history: a servo was commanded after its detach
    sweep_first,  \* history: first value commanded by the running sweep
    prev_label,   \* history: label of the previous routed cycle
    sw            \* sine_sweep run on its own on one servo (see SweepSpec)

vars == <<variant, pc, label, confidence, prog, seg, step, val, attached,
          exc, reported, first_cmd, cmds, trace, late_cmd, sweep_first,
          prev_label, sw>>

hist == <<first_cmd, cmds, trace, late_cmd, sweep_first, prev_label, sw>>

main_vars == <<variant, pc, label, confidence, prog, seg, step, val, attached,
               exc, reported, first_cmd, cmds, trace, late_cmd, sweep_first,
               prev_label>>

\* ------------------------------------------------------- servo helpers

Abs(x) == IF x < 0 THEN 0 - x ELSE x

\* the float nearest to the rational mag / den (mag >= 0, den > 0), ties
\* to even, when mag / den lies in the binade of exponent k
fl_round(mag, den, k) ==
    LET d  == den * 2 ^ k
        q  == mag \div d
        r  == mag % d
        up == IF 2 * r > d \/ (2 * r = d /\ q % 2 = 1) THEN 1 ELSE 0
    IN  (q + up) * 2 ^ k

\* the exponent of mag / den: the spacing of the floats around it is 2^k
\* units (k = 0 below 2^MantBits units, where the grid is the finest)
fl_exp(mag, den) ==
    CHOOSE j \in 0..(FracBits + 3 - MantBits) :
        /\ mag < den * 2 ^ (MantBits + j)
        /\ (j = 0 \/ mag >= den * 2 ^ (MantBits + j - 1))

\* the float nearest to the rational num / den (den > 0), ties to even:
\* the result of one rounded float operation, num / den being in units of
\* 2^-FracBits.  (x and k stand for num and its exponent, evaluated once.)
fl(num, den) ==
    CHOOSE res \in UNION { { IF x < 0 THEN 0 - fl_round(0 - x, den, k)
                                      ELSE fl_round(x, den, k) :
                             k \in {fl_exp(Abs(x), den)} } :
                           x \in {num} } : TRUE

\* mutant: the offset of the mapping is forgotten
deg_to_val_no_offset(deg) == fl(deg * Scale, 90)

\* deg_to_val: (deg / 90) - 1
deg_to_val(deg) == fl(fl(deg * Scale, 90) - Scale, 1)

\* math.sin(math.pi * (t - 0.5)) for t = i / n.  With a = |2i - n| the
\* angle is +-(pi/2)(a/n); Bhaskara's rational form of the sine,
\* 16u(1-u) / (5 - 4u(1-u)) for sin(pi u), is exact at 0, pi/6, pi/2.
eased_val(i, n) ==
    LET a == IF 2 * i >= n THEN 2 * i - n ELSE n - 2 * i
        m == a * (2 * n - a)
        s == fl(Scale * 4 * m, 5 * n * n - m)
    IN  IF 2 * i >= n THEN s ELSE 0 - s

\* (eased_val + 1) / 2 of sine_sweep: the eased fraction at loop index i
eased_fraction(i, n) == fl(fl(eased_val(i, n) + Scale, 1), 2)

\* mutant: the eased value is not remapped from [-1, 1] to [0, 1]
current_val_no_remap(start_deg, end_deg, i, n) ==
    LET start_val == deg_to_val(start_deg)
        end_val   == deg_to_val(end_deg)
        delta_val == fl(end_val - start_val, 1)
    IN  fl(start_val + fl(delta_val * fl(eased_val(i, n) + Scale, 1), Scale), 1)

\* current_val of sine_sweep at loop index i:
\* start_val + (delta_val * ((eased_val + 1) / 2))
current_val(start_deg, end_deg, i, n) ==
    LET start_val == deg_to_val(start_deg)
        end_val   == deg_to_val(end_deg)
        delta_val == fl(end_val - start_val, 1)
    IN  fl(start_val + fl(delta_val * eased_fraction(i, n), Scale), 1)

\* ------------------------------------------------------ deposit programs
Sweep(servo, start_deg, end_deg) ==
    [kind |-> "sweep", servo |-> servo, from |-> start_deg, to |-> end_deg,
     ticks |-> 0]
Pause(tenths) ==
    [kind |-> "pause", servo |-> "none", from |-> 0, to |-> 0,
     ticks |-> tenths]

\* mutant: the pan servo is not swept back to the centre
run_deposit_sequence_no_pan_return(target_angle) ==
    << Sweep("pan", CENTER_POS, target_angle),
       Pause(PAN_SETTLE_PAUSE),
       Sweep("tilt", CENTER_POS, CLS_DROP_POS),
       Pause(DROP_PAUSE),
       Sweep("tilt", CLS_DROP_POS, CENTER_POS) >>

\* mutant: the drop is started before the pan has moved to the bin
run_deposit_sequence_tilt_first(target_angle) ==
    << Sweep("tilt", CENTER_POS, CLS_DROP_POS),
       Pause(PAN_SETTLE_PAUSE),
       Sweep("pan", CENTER_POS, target_angle),
       Pause(DROP_PAUSE),
       Sweep("tilt", CLS_DROP_POS, CENTER_POS),
       Sweep("pan", target_angle, CENTER_POS) >>

\* classifier_app.run_deposit_sequence
run_deposit_sequence(target_angle) ==
    << Sweep("pan", CENTER_POS, target_angle),
       Pause(PAN_SETTLE_PAUSE),
       Sweep("tilt", CENTER_POS, CLS_DROP_POS),
       Pause(DROP_PAUSE),
       Sweep("tilt", CLS_DROP_POS, CENTER_POS),
       Sweep("pan", target_angle, CENTER_POS) >>

\* classifier_app.trigger_actuator, "mixed" branch (inline tilt cycle)
cls_mixed_tilt_drop ==
    << Sweep("tilt", CENTER_POS, CLS_DROP_POS),
       Pause(DROP_PAUSE),
       Sweep("tilt", CLS_DROP_POS, CENTER_POS) >>

\* mutant: the pause at the drop angle is cut short
run_drop_tilt_cycle_short_pause(tilt_pos, return_pos) ==
    << Sweep("tilt", return_pos, tilt_pos),
       Pause(DROP_PAUSE - 1),
       Sweep("tilt", tilt_pos, return_pos) >>

\* gemini_trigger_app.run_drop_tilt_cycle
run_drop_tilt_cycle(tilt_pos, return_pos) ==
    << Sweep("tilt", return_pos, tilt_pos),
       Pause(DROP_PAUSE),
       Sweep("tilt", tilt_pos, return_pos) >>

\* mutant: the pan returns before the tilt has closed
run_pan_tilt_sequence_pan_first(pan_target, tilt_target) ==
    << Sweep("pan", CENTER_POS, pan_target),
       Pause(PAN_SETTLE_PAUSE),
       Sweep("tilt", CENTER_POS, GEM_FULL_TILT),
       Pause(DROP_PAUSE),
       Sweep("pan", pan_target, CENTER_POS),
       Sweep("tilt", GEM_FULL_TILT, CENTER_POS) >>

\* mutant: no pause between the pan and the drop
run_pan_tilt_sequence_no_settle(pan_target, tilt_target) ==
    << Sweep("pan", CENTER_POS, pan_target),
       Sweep("tilt", CENTER_POS, GEM_FULL_TILT),
       Pause(DROP_PAUSE),
       Sweep("tilt", GEM_FULL_TILT, CENTER_POS),
       Sweep("pan", pan_target, CENTER_POS) >>

\* gemini_trigger_app.run_pan_tilt_sequence (tilt_target is not used by
\* the body, which always tilts to 180)
run_pan_tilt_sequence(pan_target, tilt_target) ==
    << Sweep("pan", CENTER_POS, pan_target),
       Pause(PAN_SETTLE_PAUSE),
       Sweep("tilt", CENTER_POS, GEM_FULL_TILT),
       Pause(DROP_PAUSE),
       Sweep("tilt", GEM_FULL_TILT, CENTER_POS),
       Sweep("pan", pan_target, CENTER_POS) >>

\* str.lower() on the labels of the model
Lower(s) == IF s = "Wet" THEN "wet" ELSE s

\* mutant: the else branch drops instead of staying at the centre
cls_trigger_actuator_else_drops(waste_type) ==
    IF Lower(waste_type) = "wet" THEN run_deposit_sequence(CLS_WET_POS)
    ELSE IF Lower(waste_type) = "dry" THEN run_deposit_sequence(CLS_DRY_POS)
    ELSE cls_mixed_tilt_drop

\* classifier_app.trigger_actuator: the program chosen for a label
\* (the empty program is the else branch)
cls_trigger_actuator(waste_type) ==
    IF Lower(waste_type) = "wet" THEN run_deposit_sequence(CLS_WET_POS)
    ELSE IF Lower(waste_type) = "dry" THEN run_deposit_sequence(CLS_DRY_POS)
    ELSE IF Lower(waste_type) = "mixed" THEN cls_mixed_tilt_drop
    ELSE << >>

\* mutant: "wet" is sent through the pan-tilt sequence
gem_trigger_actuator_wet_pans(classification) ==
    IF classification = "wet"
        THEN run_pan_tilt_sequence(GEM_MIXED_HAZ_POS, GEM_FULL_TILT)
    ELSE IF classification = "dry"
        THEN run_pan_tilt_sequence(GEM_DRY_POS, GEM_FULL_TILT)
    ELSE IF classification = "mixed"
        THEN run_pan_tilt_sequence(GEM_MIXED_HAZ_POS, GEM_FULL_TILT)
    ELSE << >>

\* gemini_trigger_app.trigger_actuator
gem_trigger_actuator(classification) ==
    IF classification = "wet"
        THEN run_drop_tilt_cycle(GEM_WET_TILT_POS, CENTER_POS)
    ELSE IF classification = "dry"
        THEN run_pan_tilt_sequence(GEM_DRY_POS, GEM_FULL_TILT)
    ELSE IF classification = "mixed"
        THEN run_pan_tilt_sequence(GEM_MIXED_HAZ_POS, GEM_FULL_TILT)
    ELSE << >>

trigger_actuator(v, l) ==
    IF v = "classifier" THEN cls_trigger_actuator(l)
    ELSE gem_trigger_actuator(l)

\* classify_with_gemini, line 123-124: strip().lower() then the whitelist
gemini_result(text) ==
    IF Lower(text) \in {"wet", "dry", "mixed"} THEN Lower(text) ELSE "unknown"

\* ---------------------------------------------------------------- state
NoCmds == [s \in Servos |-> 0]

\* sw while a script runs: no stand-alone sweep
SwOff == [phase |-> "off", a |-> 0, b |-> 0, n |-> 0, i |-> 0, v |-> Unset,
          v0 |-> Unset, first |-> Unset, last |-> Unset, frac0 |-> Unset,
          frac |-> Unset]

Init ==
    /\ variant \in Variants
    /\ pc = IF variant = "classifier" THEN "load_labels" ELSE "init_camera"
    /\ label = NoLabel
    /\ confidence = 0
    /\ prog = << >>
    /\ seg = 0
    /\ step = 0
    /\ val = [s \in Servos |-> Unset]
    /\ attached = [s \in Servos |-> TRUE]
    /\ exc = "none"
    /\ reported = FALSE
    /\ first_cmd = [s \in Servos |-> Unset]
    /\ cmds = NoCmds
    /\ trace = << >>
    /\ late_cmd = FALSE
    /\ sweep_first = Unset
    /\ prev_label = NoLabel
    /\ sw = SwOff

\* servo.value = v
Command(s, v) ==
    /\ val' = [val EXCEPT ![s] = v]
    /\ first_cmd' = [first_cmd EXCEPT ![s] = IF @ = Unset THEN v ELSE @]
    /\ cmds' = [cmds EXCEPT ![s] = @ + 1]
    /\ late_cmd' = (late_cmd \/ ~attached[s])

\* an exception that reaches module level: the interpreter exits, the
\* try/finally of __main__ is never entered
Die(e) ==
    /\ pc' = "done"
    /\ exc' = e

\* ------------------------------------------------ module initialisation
\* classifier_app lines 58-63: open(LABEL_PATH) or exit()
LoadLabels ==
    /\ pc = "load_labels"
    /\ \/ pc' = "load_model" /\ exc' = exc
       \/ Die("SystemExit")
    /\ UNCHANGED <<variant, label, confidence, prog, seg, step, val,
                   attached, reported, hist>>

\* classifier_app lines 65-68: the TFLite interpreter
LoadModel ==
    /\ pc = "load_model"
    /\ \/ pc' = "init_camera" /\ exc' = exc
       \/ Die("InitError")
    /\ UNCHANGED <<variant, label, confidence, prog, seg, step, val,
                   attached, reported, hist>>

\* Picamera2() ... picam2.start(), time.sleep(2)
InitCamera ==
    /\ pc = "init_camera"
    /\ \/ pc' = "init_tilt" /\ exc' = exc
       \/ Die("InitError")
       \/ Die("KeyboardInterrupt")
    /\ UNCHANGED <<variant, label, confidence, prog, seg, step, val,
                   attached, reported, hist>>

\* servo_tilt.value = deg_to_val(CENTER_POS)
InitTilt ==
    /\ pc = "init_tilt"
    /\ Command("tilt", deg_to_val(CENTER_POS))
    /\ pc' = "init_pan"
    /\ UNCHANGED <<variant, label, confidence, prog, seg, step, attached,
                   exc, reported, trace, sweep_first, prev_label, sw>>

\* mutant: the pan servo is not given its initial position
InitPan_skipped ==
    /\ pc = "init_pan"
    /\ pc' = "await"
    /\ UNCHANGED <<variant, label, confidence, prog, seg, step, val,
                   attached, exc, reported, hist>>

\* servo_pan.value = deg_to_val(CENTER_POS), then __main__ enters its loop
InitPan ==
    /\ pc = "init_pan"
    /\ Command("pan", deg_to_val(CENTER_POS))
    /\ pc' = "await"
    /\ UNCHANGED <<variant, label, confidence, prog, seg, step, attached,
                   exc, reported, trace, sweep_first, prev_label, sw>>

\* ------------------------------------------------------------ main loop
TryPcs == {"await", "capture", "classify", "route", "exec", "error"}

\* input(...) returns: a new cycle starts
AwaitTrigger ==
    /\ pc = "await"
    /\ pc' = "capture"
    /\ label' = NoLabel
    /\ confidence' = 0
    /\ prog' = << >>
    /\ seg' = 0
    /\ step' = 0
    /\ cmds' = NoCmds
    /\ trace' = << >>
    /\ sweep_first' = Unset
    /\ prev_label' = IF label = NoLabel THEN prev_label ELSE label
    /\ UNCHANGED <<variant, val, attached, exc, reported, first_cmd, late_cmd,
                   sw>>

\* classifier: picam2.capture_array() inside capture_and_classify, which
\* has no handler of its own.  gemini: capture_image_from_pi_cam, which
\* returns False on any exception, and the loop then `continue`s
Capture ==
    /\ pc = "capture"
    /\ \/ pc' = "classify" /\ exc' = exc
       \/ /\ variant = "classifier"
          /\ pc' = "except"
          /\ exc' = "ClassifierError"
       \/ /\ variant = "gemini"
          /\ pc' = "await"
          /\ exc' = exc
    /\ UNCHANGED <<variant, label, confidence, prog, seg, step, val,
                   attached, reported, hist>>

\* classifier: interpreter.invoke(), argmax, labels[predicted_index]
cls_Classify ==
    /\ variant = "classifier"
    /\ \/ /\ label' \in RawLabels
          /\ confidence' \in Confidences
          /\ pc' = "route"
          /\ exc' = exc
       \/ /\ pc' = "except"
          /\ exc' = "ClassifierError"
          /\ UNCHANGED <<label, confidence>>

\* gemini: classify_with_gemini never raises, it returns an error string
gem_Classify ==
    /\ variant = "gemini"
    /\ label' \in GeminiErrors \cup {gemini_result(t) : t \in RawLabels}
    /\ pc' = "route"
    /\ UNCHANGED <<confidence, exc>>

Classify ==
    /\ pc = "classify"
    /\ (cls_Classify \/ gem_Classify)
    /\ UNCHANGED <<variant, prog, seg, step, val, attached, reported, hist>>

\* mutant: a prediction below 50% is sent to the else branch
Route_confidence_threshold ==
    /\ pc = "route"
    /\ prog' = IF variant = "classifier" /\ confidence < 50
                  THEN << >>
                  ELSE trigger_actuator(variant, label)
    /\ step' = 0
    /\ IF prog' = << >>
          THEN pc' = "error" /\ seg' = 0
          ELSE pc' = "exec" /\ seg' = 1
    /\ UNCHANGED <<variant, label, confidence, val, attached, exc, reported,
                   hist>>

\* trigger_actuator(label): pick the branch
Route ==
    /\ pc = "route"
    /\ prog' = trigger_actuator(variant, label)
    /\ step' = 0
    /\ IF prog' = << >>
          THEN pc' = "error" /\ seg' = 0
          ELSE pc' = "exec" /\ seg' = 1
    /\ UNCHANGED <<variant, label, confidence, val, attached, exc, reported,
                   hist>>

\* else branch of trigger_actuator: report; classifier_app also sleeps 0.5s
ErrorPauseOf(v) == IF v = "classifier" THEN ERROR_PAUSE ELSE 0

ErrorState ==
    /\ pc = "error"
    /\ IF step < ErrorPauseOf(variant)
          THEN step' = step + 1 /\ pc' = pc
          ELSE step' = 0 /\ pc' = "await"
    /\ UNCHANGED <<variant, label, confidence, prog, seg, val, attached,
                   exc, reported, hist>>

\* mutant: after the last segment the loop is left for the finally block
SegmentDone_leaves_loop(ev) ==
    /\ trace' = Append(trace, ev)
    /\ step' = 0
    /\ IF seg < Len(prog)
          THEN seg' = seg + 1 /\ pc' = "exec"
          ELSE seg' = 0 /\ pc' = "finally"

\* the running segment is over: the next one, or back to input()
SegmentDone(ev) ==
    /\ trace' = Append(trace, ev)
    /\ step' = 0
    /\ IF seg < Len(prog)
          THEN seg' = seg + 1 /\ pc' = "exec"
          ELSE seg' = 0 /\ pc' = "await"

\* one iteration of the loop of sine_sweep: servo.value = current_val,
\* time.sleep(delay)
SweepStep ==
    /\ pc = "exec"
    /\ prog[seg].kind = "sweep"
    /\ LET g == prog[seg]
           v == current_val(g.from, g.to, step, steps)
           first == IF step = 0 THEN v ELSE sweep_first
       IN  /\ Command(g.servo, v)
           /\ sweep_first' = first
           /\ IF step < steps
                 THEN /\ step' = step + 1
                      /\ UNCHANGED <<trace, seg, pc>>
                 ELSE SegmentDone([kind |-> "sweep", servo |-> g.servo,
                                   from |-> first, to |-> v, ticks |-> 0])
    /\ UNCHANGED <<variant, label, confidence, prog, attached, exc,
                   reported, prev_label, sw>>

\* time.sleep(n) between sweeps, a tenth of a second at a time
PauseTick ==
    /\ pc = "exec"
    /\ prog[seg].kind = "pause"
    /\ IF step + 1 < prog[seg].ticks
          THEN /\ step' = step + 1
               /\ UNCHANGED <<trace, seg, pc>>
          ELSE SegmentDone([kind |-> "pause", servo |-> "none", from |-> 0,
                            to |-> 0, ticks |-> step + 1])
    /\ UNCHANGED <<variant, label, confidence, prog, val, attached, exc,
                   reported, first_cmd, cmds, late_cmd, prev_label,
                   sweep_first, sw>>

\* servo.value = ... raises inside sine_sweep: nothing catches it before
\* the `except Exception` of __main__
ServoFault ==
    /\ pc = "exec"
    /\ prog[seg].kind = "sweep"
    /\ pc' = "except"
    /\ exc' = "ActuatorFault"
    /\ UNCHANGED <<variant, label, confidence, prog, seg, step, val,
                   attached, reported, hist>>

\* Ctrl+C anywhere inside the try block of __main__
Interrupt ==
    /\ pc \in TryPcs
    /\ pc' = "except"
    /\ exc' = "KeyboardInterrupt"
    /\ UNCHANGED <<variant, label, confidence, prog, seg, step, val,
                   attached, reported, hist>>

\* ------------------------------------------------------- shutdown path
\* except KeyboardInterrupt / except Exception: print only
Except ==
    /\ pc = "except"
    /\ reported' = TRUE
    /\ pc' = "finally"
    /\ UNCHANGED <<variant, label, confidence, prog, seg, step, val,
                   attached, exc, hist>>

\* finally: picam2.stop(); if it raises the detach calls are skipped
CameraStop ==
    /\ pc = "finally"
    /\ \/ pc' = "detach_tilt" /\ exc' = exc
       \/ Die(exc)
    /\ UNCHANGED <<variant, label, confidence, prog, seg, step, val,
                   attached, reported, hist>>

\* servo_tilt.detach()
DetachTilt ==
    /\ pc = "detach_tilt"
    /\ attached' = [attached EXCEPT !["tilt"] = FALSE]
    /\ pc' = "detach_pan"
    /\ UNCHANGED <<variant, label, confidence, prog, seg, step, val, exc,
                   reported, hist>>

\* servo_pan.detach(), then the script ends
DetachPan ==
    /\ pc = "detach_pan"
    /\ attached' = [attached EXCEPT !["pan"] = FALSE]
    /\ pc' = "done"
    /\ UNCHANGED <<variant, label, confidence, prog, seg, step, val, exc,
                   reported, hist>>

Next ==
    \/ LoadLabels
    \/ LoadModel
    \/ InitCamera
    \/ InitTilt
    \/ InitPan
    \/ AwaitTrigger
    \/ Capture
    \/ Classify
    \/ Route
    \/ ErrorState
    \/ SweepStep
    \/ PauseTick
    \/ ServoFault
    \/ Interrupt
    \/ Except
    \/ CameraStop
    \/ DetachTilt
    \/ DetachPan

Spec == Init /\ [][Next]_vars

\* the statements the interpreter runs by itself: everything but the
\* operator (ENTER, Ctrl+C) and the servo driver raising
ScriptStep ==
    \/ LoadLabels
    \/ LoadModel
    \/ InitCamera
    \/ InitTilt
    \/ InitPan
    \/ Capture
    \/ Classify
    \/ Route
    \/ ErrorState
    \/ SweepStep
    \/ PauseTick
    \/ Except
    \/ CameraStop
    \/ DetachTilt
    \/ DetachPan

\* the script is sequential and blocking: a statement that can run, runs
FairSpec == Init /\ [][Next]_vars /\ WF_vars(ScriptStep)

\* ------------------------------------------- sine_sweep on its own
\* sine_sweep(servo, a, b, steps=n) followed by sine_sweep(servo, b, a,
\* steps=n) on a servo placed at a, for angles and step counts other than
\* the ones the two scripts use.
MaxSweepSteps == 3
TestAngles == {0, 2, 45, 90, 93, 135, 180}

SwInit ==
    /\ variant \in Variants
    /\ pc = "sweep"
    /\ label = NoLabel
    /\ confidence = 0
    /\ prog = << >>
    /\ seg = 0
    /\ step = 0
    /\ val = [s \in Servos |-> Unset]
    /\ attached = [s \in Servos |-> TRUE]
    /\ exc = "none"
    /\ reported = FALSE
    /\ first_cmd = [s \in Servos |-> Unset]
    /\ cmds = NoCmds
    /\ trace = << >>
    /\ late_cmd = FALSE
    /\ sweep_first = Unset
    /\ prev_label = NoLabel
    /\ \E a \in TestAngles, b \in TestAngles, n \in 1..MaxSweepSteps :
          sw = [SwOff EXCEPT !.phase = "place", !.a = a, !.b = b, !.n = n]

\* servo.value = deg_to_val(a): the servo stands at angle a
SwPlace ==
    /\ sw.phase = "place"
    /\ sw' = [sw EXCEPT !.phase = "forward", !.v = deg_to_val(sw.a),
                         !.v0 = deg_to_val(sw.a)]
    /\ UNCHANGED main_vars

\* one iteration of sine_sweep(servo, a, b, steps=n)
SwForward ==
    /\ sw.phase = "forward"
    /\ LET v == current_val(sw.a, sw.b, sw.i, sw.n)
           f == eased_fraction(sw.i, sw.n)
       IN  sw' = [sw EXCEPT
                    !.v = v,
                    !.frac = f,
                    !.frac0 = IF sw.i = 0 THEN f ELSE @,
                    !.first = IF sw.i = 0 THEN v ELSE @,
                    !.last = IF sw.i = sw.n THEN v ELSE @,
                    !.i = IF sw.i = sw.n THEN 0 ELSE @ + 1,
                    !.phase = IF sw.i = sw.n THEN "backward" ELSE @]
    /\ UNCHANGED main_vars

\* one iteration of sine_sweep(servo, b, a, steps=n)
SwBackward ==
    /\ sw.phase = "backward"
    /\ sw' = [sw EXCEPT
                 !.v = current_val(sw.b, sw.a, sw.i, sw.n),
                 !.i = IF sw.i = sw.n THEN 0 ELSE @ + 1,
                 !.phase = IF sw.i = sw.n THEN "done" ELSE @]
    /\ UNCHANGED main_vars

SwNext ==
    \/ SwPlace
    \/ SwForward
    \/ SwBackward

SweepSpec == SwInit /\ [][SwNext]_vars

TypeOK ==
    /\ variant \in Variants
    /\ label \in AllLabels \cup {NoLabel}
    /\ \A s \in Servos : val[s] = Unset \/ (val[s] >= 0 - Scale /\ val[s] <= Scale)

\* =====================================================================
\* Properties
\* =====================================================================
ShutdownPcs == {"finally", "detach_tilt", "detach_pan", "done"}

\* events of the motion trace, in servo values
SweepEv(servo, from_deg, to_deg) ==
    [kind |-> "sweep", servo |-> servo, from |-> deg_to_val(from_deg),
     to |-> deg_to_val(to_deg), ticks |-> 0]
PauseEv(tenths) ==
    [kind |-> "pause", servo |-> "none", from |-> 0, to |-> 0,
     ticks |-> tenths]

IsPrefix(p, q) == Len(p) <= Len(q) /\ p = SubSeq(q, 1, Len(p))

AtNeutral == val["pan"] = deg_to_val(90) /\ val["tilt"] = deg_to_val(90)

\* trigger_actuator has chosen the branch for the label of this cycle
Routed == pc = "exec" \/ pc = "error" \/ (pc = "await" /\ label # NoLabel)

\* C1: whenever the main loop waits for the next trigger, the last value
\* commanded to the pan servo and to the tilt servo is the value for 90
\* degrees, after any number of completed cycles with any labels, in both
\* scripts.
C1_NeutralAtAwait == pc = "await" => AtNeutral

\* C1 witness: a second cycle has completed a full pan-tilt program
C1_Witness ==
    /\ pc = "await"
    /\ Len(trace) = 6
    /\ prev_label \in {"wet", "dry", "mixed"}
    /\ cmds["pan"] > 0

\* C2: at the moment a servo is detached its last commanded value is the
\* value for 90 degrees (the shutdown path returns both servos to Neutral
\* before it releases them), wherever the interrupt arrived.
C2_NeutralAtDetach ==
    \A s \in Servos : ~attached[s] => val[s] = deg_to_val(90)

\* C3: when the process has ended after the servos were acquired, both
\* servos have been detached, and no servo was commanded after its detach.
C3_ReleasedOnEveryExit ==
    /\ pc = "done" => (~attached["tilt"] /\ ~attached["pan"])
    /\ ~late_cmd

\* shapes of the program held in prog
IsTiltOnly(p) ==
    /\ p # << >>
    /\ \A i \in DOMAIN p : p[i].servo # "pan"

IsPanTilt(p, target, drop) ==
    p = << Sweep("pan", 90, target), Pause(5), Sweep("tilt", 90, drop),
           Pause(10), Sweep("tilt", drop, 90), Sweep("pan", target, 90) >>

\* the full drop angle of the pan-tilt program of each script
DropAngle == IF variant = "classifier" THEN 0 ELSE 180
\* the pan angle of the dry bin of each script (DRY_POS)
DryPanAngle == IF variant = "classifier" THEN 135 ELSE 45

\* C4 as stated: "wet" always selects the tilt-only program, with no pan
\* command in the cycle, and "dry" always selects the pan-tilt program
\* whose pan target is the dry pan angle.
C4_WetAlwaysTiltOnly ==
    Routed =>
        /\ label = "wet" => (IsTiltOnly(prog) /\ cmds["pan"] = 0)
        /\ label = "dry" => IsPanTilt(prog, DryPanAngle, DropAngle)

\* C4 amended: routing is a fixed function of the script and the label.
\* "wet" selects the tilt-only program (no pan command) in the gemini
\* script and the pan-tilt program with pan target 45 in the classifier
\* script; "dry" selects the pan-tilt program whose pan target is the
\* script's dry pan angle; whatever the previous cycle was.
C4_RoutingFixedPerScript ==
    Routed =>
        /\ (label = "wet" /\ variant = "gemini")
               => (IsTiltOnly(prog) /\ cmds["pan"] = 0)
        /\ (label = "wet" /\ variant = "classifier")
               => IsPanTilt(prog, 45, 0)
        /\ label = "dry" => IsPanTilt(prog, DryPanAngle, DropAngle)

\* C4 witness: a "wet" cycle of the gemini script is under way right after
\* a "dry" cycle
C4_Witness ==
    /\ pc = "exec"
    /\ variant = "gemini"
    /\ label = "wet"
    /\ prev_label = "dry"
    /\ cmds["tilt"] > 0

\* labels outside the recognised set {wet, dry, mixed}
UnrecognisedLabels ==
    {"unknown_garbage", "", "unknown", "error: no image",
     "error: API key not set", "error: api", "error: general"}

\* C5: for a label outside the recognised set the cycle never runs a
\* program, issues no command to either servo and leaves both at Neutral;
\* it raises nothing (only an operator interrupt can end the loop in such
\* a cycle) and the Error state is left towards the next trigger.
C5_UnknownLabelNoMotion ==
    /\ [](label \in UnrecognisedLabels =>
            /\ pc # "exec"
            /\ cmds = NoCmds
            /\ AtNeutral
            /\ exc \in {"none", "KeyboardInterrupt"})
    /\ [][(pc = "error" /\ pc' # "error")
            => (pc' = "await" \/ exc' = "KeyboardInterrupt")]_vars

\* C5 witness: an Error cycle is over, the loop is back at the trigger,
\* and the cycle before it was an Error cycle too
C5_Witness ==
    /\ pc = "await"
    /\ label = "unknown_garbage"
    /\ prev_label \in UnrecognisedLabels
    /\ cmds = NoCmds

\* C6: a servo fault during a sweep does not end the process: the shutdown
\* path is never entered with the fault as its cause.
C6_FaultKeepsLoopAlive == exc = "ActuatorFault" => pc \notin ShutdownPcs

\* C7: a failure of the classifier never becomes an exception that ends
\* the loop; it becomes an error label whose cycle commands no servo.
C7_ClassifierFailureIsErrorLabel ==
    /\ exc # "ClassifierError"
    /\ label \in GeminiErrors => (cmds = NoCmds /\ pc # "exec")

\* the motion trace of the tilt-only drop
TiltOnlyTrace ==
    << SweepEv("tilt", 90, 0), PauseEv(10), SweepEv("tilt", 0, 90) >>

TiltOnlyCycle ==
    /\ cmds["pan"] = 0
    /\ IsPrefix(trace, TiltOnlyTrace)
    /\ pc = "exec" => seg = Len(trace) + 1
    /\ pc = "await" => (trace = TiltOnlyTrace /\ AtNeutral)

\* C8 as stated: for label "wet" the motion trace of the cycle is
\* [tilt 90->0, pause 1s, tilt 0->90], pan gets no command, and the cycle
\* ends with both servos at Neutral.
C8_WetTraceTiltOnly == label = "wet" => TiltOnlyCycle

\* C8 amended: for label "wet" in the gemini script the motion trace of the
\* cycle is exactly [tilt 90->0, pause 1s, tilt 0->90], pan gets no command
\* and the cycle ends at Neutral; in the classifier script "wet" first pans
\* to 45 degrees.
C8_GeminiWetTraceTiltOnly ==
    /\ (label = "wet" /\ variant = "gemini") => TiltOnlyCycle
    /\ (label = "wet" /\ variant = "classifier" /\ pc = "await")
           => (trace[1] = SweepEv("pan", 90, 45) /\ Len(trace) = 6)

\* C8 witness: a "wet" cycle of the gemini script has completed
C8_Witness ==
    /\ pc = "await"
    /\ variant = "gemini"
    /\ label = "wet"
    /\ Len(trace) = 3

\* the cycles that run the pan-tilt-drop program, and its pan target
PanTiltCase ==
    \/ variant = "classifier" /\ Lower(label) \in {"wet", "dry"}
    \/ variant = "gemini" /\ label \in {"dry", "mixed"}

PanTarget ==
    IF variant = "classifier"
        THEN (IF Lower(label) = "wet" THEN 45 ELSE 135)
        ELSE (IF label = "dry" THEN 45 ELSE 135)

PanTiltTrace ==
    << SweepEv("pan", 90, PanTarget), PauseEv(5),
       SweepEv("tilt", 90, DropAngle), PauseEv(10),
       SweepEv("tilt", DropAngle, 90), SweepEv("pan", PanTarget, 90) >>

\* C9: the pan-tilt-drop program runs its six segments in order, one at a
\* time: pan Neutral->target, pause 0.5s, tilt Neutral->drop, pause 1s,
\* tilt drop->Neutral, pan target->Neutral.  The completed segments are
\* always a prefix of that list with every pause at its full length, the
\* running segment is the next one, and between the end of the first pan
\* sweep and the end of the tilt return the pan servo gets no command.
C9_PanTiltOrder ==
    PanTiltCase =>
        /\ IsPrefix(trace, PanTiltTrace)
        /\ pc = "exec" => seg = Len(trace) + 1
        /\ pc = "await" => trace = PanTiltTrace
        /\ Len(trace) \in 1..4 =>
              (cmds["pan"] = steps + 1 /\ val["pan"] = deg_to_val(PanTarget))
        /\ Len(trace) \in {0, 1, 5, 6} => val["tilt"] = deg_to_val(90)

\* C9 witness: the pan return of a pan-tilt program is under way
C9_Witness ==
    /\ PanTiltCase
    /\ pc = "exec"
    /\ Len(trace) = 5
    /\ step = 1

\* C10: the first value each servo is given is the value for 90 degrees,
\* and both servos have been given it before the first trigger is awaited.
C10_NeutralBeforeFirstTrigger ==
    /\ \A s \in Servos : first_cmd[s] \in {Unset, deg_to_val(90)}
    /\ pc \in TryPcs => \A s \in Servos : first_cmd[s] = deg_to_val(90)

\* C10 witness: the loop awaits its first trigger
C10_Witness ==
    /\ pc = "await"
    /\ label = NoLabel
    /\ prev_label = NoLabel
    /\ cmds["pan"] = 1
    /\ cmds["tilt"] = 1

\* ----------------------------------------------- properties of sine_sweep

\* C11: for every step count n >= 1 and all start and end angles, the eased
\* fraction is 0 at i = 0 and 1 at i = n, the first value a sweep commands
\* is exactly the value of its start angle and the last value it commands
\* is exactly the value of its end angle.
C11_SweepBoundaryExact ==
    sw.phase \in {"backward", "done"} =>
        /\ sw.frac0 = 0
        /\ sw.frac = Scale
        /\ sw.first = deg_to_val(sw.a)
        /\ sw.last = deg_to_val(sw.b)

\* C12: sweep(a, b) followed by sweep(b, a) leaves the servo at the value
\* it had before the first sweep.
C12_SweepRoundTrip == sw.phase = "done" => sw.v = sw.v0

\* C15: deg_to_val is the linear map angle / 90 - 1 on [0, 180]:
\* deg_to_val(0) = -1, deg_to_val(90) = 0, deg_to_val(180) = 1, and for
\* every angle the value is angle / 90 - 1 up to the rounding of the
\* division and of the subtraction; both scripts define the same map.
C15_LinearMap ==
    sw.phase \in {"forward", "backward", "done"} =>
        /\ sw.a = 0 => sw.v0 = 0 - Scale
        /\ sw.a = 90 => sw.v0 = 0
        /\ sw.a = 180 => sw.v0 = Scale
        /\ Abs(90 * sw.v0 - (sw.a - 90) * Scale)
              <= 90 * 2 ^ (FracBits + 1 - MantBits)

\* C15 witness: a servo has been placed at 180 degrees
C15_Witness ==
    /\ sw.phase = "forward"
    /\ sw.a = 180
    /\ sw.i = 0

\* the motion trace a program leaves when it runs to its end
TraceOf(p) ==
    [i \in DOMAIN p |->
        IF p[i].kind = "sweep"
            THEN SweepEv(p[i].servo, p[i].from, p[i].to)
            ELSE PauseEv(p[i].ticks)]

\* commands a servo gets from a program that runs to its end
CommandsOf(p, s) ==
    (steps + 1) * Cardinality({i \in DOMAIN p : p[i].servo = s})

\* the program of each label in classifier_app, the script that has a
\* confidence; the confidence does not occur in it
ProgramOfLabel(l) ==
    IF l \in {"wet", "Wet"}
        THEN << Sweep("pan", 90, 45), Pause(5), Sweep("tilt", 90, 0),
                Pause(10), Sweep("tilt", 0, 90), Sweep("pan", 45, 90) >>
    ELSE IF l = "dry"
        THEN << Sweep("pan", 90, 135), Pause(5), Sweep("tilt", 90, 0),
                Pause(10), Sweep("tilt", 0, 90), Sweep("pan", 135, 90) >>
    ELSE IF l = "mixed"
        THEN << Sweep("tilt", 90, 0), Pause(10), Sweep("tilt", 0, 90) >>
    ELSE << >>

\* C13: the confidence is informational only: in classifier_app the
\* program selected, the motion trace of the completed cycle and the
\* number of commands each servo got are a function of the label alone,
\* whatever the confidence of the prediction.
C13_ConfidenceInformational ==
    (Routed /\ variant = "classifier") =>
        /\ prog = ProgramOfLabel(label)
        /\ pc = "await" =>
              /\ trace = TraceOf(ProgramOfLabel(label))
              /\ \A s \in Servos : cmds[s] = CommandsOf(ProgramOfLabel(label), s)

\* C13 witness: a prediction of low confidence has run the full program
\* of its label
C13_Witness ==
    /\ pc = "await"
    /\ variant = "classifier"
    /\ label = "dry"
    /\ confidence = 40
    /\ Len(trace) = 6

\* C14: without a stop signal and without a fault every triggered cycle
\* returns to the wait for the next trigger; the loop moves
\* Idle -> capture/classify -> Routing -> Executing or Error -> Idle (a
\* failed capture of the gemini script goes back to Idle at once); and the
\* label changes only when a trigger is taken or a classification arrives,
\* never while a program is executing.
C14_OneCycleAtATime ==
    /\ (pc = "capture") ~> (pc = "await" \/ exc # "none")
    /\ [][exc' = "none" =>
            /\ pc = "await" => pc' \in {"await", "capture"}
            /\ pc = "capture" => pc' \in {"capture", "classify", "await"}
            /\ pc = "classify" => pc' \in {"classify", "route"}
            /\ pc = "route" => pc' \in {"route", "exec", "error"}
            /\ pc \in {"exec", "error"} => pc' \in {pc, "await"}]_vars
    /\ [][label' # label => pc \in {"await", "classify"}]_vars

\* C14 witness: a cycle has been routed, executed and has returned to
\* Idle, and the cycle before it had too
C14_Witness ==
    /\ pc = "await"
    /\ exc = "none"
    /\ label = "mixed"
    /\ prev_label = "wet"
    /\ trace # << >>

\* C17: every value a servo is given lies in [-1, 1], at every step of
\* every sweep of every program of both scripts.
C17_CommandsInRange ==
    \A s \in Servos :
        cmds[s] > 0 => (val[s] >= 0 - Scale /\ val[s] <= Scale)

\* C17 witness: the tilt servo of the gemini script is at 180 degrees, the
\* upper end of the range
C17_Witness ==
    /\ pc = "exec"
    /\ variant = "gemini"
    /\ cmds["tilt"] > 0
    /\ val["tilt"] = Scale

\* the shape of a program or of a motion trace: which servo is swept and
\* which pause is taken, in order, without the angles
ShapeOf(p) == [i \in DOMAIN p |-> <<p[i].kind, p[i].servo, p[i].ticks>>]

PanTiltShape ==
    << <<"sweep", "pan", 0>>, <<"pause", "none", 5>>,
       <<"sweep", "tilt", 0>>, <<"pause", "none", 10>>,
       <<"sweep", "tilt", 0>>, <<"sweep", "pan", 0>> >>

TiltOnlyShape ==
    << <<"sweep", "tilt", 0>>, <<"pause", "none", 10>>,
       <<"sweep", "tilt", 0>> >>

OtherVariant == IF variant = "classifier" THEN "gemini" ELSE "classifier"

ComparedLabels == {"wet", "dry", "mixed", "unknown_garbage", "unknown"}

\* C18 as stated: for each of the labels wet, dry, mixed and an
\* unrecognised one, the cycle of one script has the shape of the program
\* the other script runs for that label.
C18_SameShapeInBothScripts ==
    (pc = "await" /\ label \in ComparedLabels) =>
        ShapeOf(trace) = ShapeOf(trigger_actuator(OtherVariant, label))

\* C18 amended: both scripts run a program of the same shape, with other
\* angles, for "dry" (pan-tilt-drop) and move no servo for an unrecognised
\* label (classifier_app alone pauses 0.5s there); for "wet" classifier_app
\* runs the pan-tilt-drop shape and gemini_trigger_app the tilt-only
\* shape, and for "mixed" it is the other way round.
C18_ShapesPerScript ==
    /\ (pc = "await" /\ label \in ComparedLabels) =>
          /\ label = "dry" =>
                /\ ShapeOf(trace) = PanTiltShape
                /\ ShapeOf(trace) = ShapeOf(trigger_actuator(OtherVariant, label))
          /\ label = "wet" =>
                ShapeOf(trace) = IF variant = "classifier" THEN PanTiltShape
                                                           ELSE TiltOnlyShape
          /\ label = "mixed" =>
                ShapeOf(trace) = IF variant = "classifier" THEN TiltOnlyShape
                                                           ELSE PanTiltShape
          /\ label \in {"unknown_garbage", "unknown"} =>
                (trace = << >> /\ cmds = NoCmds)
    /\ pc = "error" => step <= (IF variant = "classifier" THEN 5 ELSE 0)

\* C18 witness: a "dry" cycle of the gemini script has completed
C18_Witness ==
    /\ pc = "await"
    /\ variant = "gemini"
    /\ label = "dry"
    /\ Len(trace) = 6
    /\ cmds["tilt"] > 0

\* C19: in a pan-tilt program, at every step of every sweep, the tilt
\* servo is away from Neutral only while the pan servo is at the pan
\* target of the program, and while the pan servo is between Neutral and
\* its target the tilt servo is at Neutral.
C19_TiltOpensOnlyAtTarget ==
    PanTiltCase =>
        /\ val["tilt"] # deg_to_val(90) => val["pan"] = deg_to_val(PanTarget)
        /\ (val["pan"] # deg_to_val(90) /\ val["pan"] # deg_to_val(PanTarget))
              => val["tilt"] = deg_to_val(90)

\* C19 witness: the tilt servo is half way down over the target bin
C19_Witness ==
    /\ PanTiltCase
    /\ pc = "exec"
    /\ seg = 3
    /\ step = 2
    /\ val["tilt"] # deg_to_val(90)
====
